---- MODULE Spec2Model ----
(***************************************************************************)
(* Model of the webhook receiver of Out_Reach_Agent:                       *)
(*   webhook_receiver/main.py      webhook_handler,                        *)
(*                                 process_notifications_for_application   *)
(*   webhook_receiver/database.py  store read and the two mark operations  *)
(*   webhook_receiver/utils.py     payload validation, phone formatting    *)
(*   tools/*.py                    the two provider tools behind the crews *)
(*                                                                         *)
(* One asyncio event loop runs the handler and the orchestration tasks.    *)
(* Code between two awaits is atomic, so a task's pc names the await it is *)
(* suspended in, and each action is the completion of that await followed  *)
(* by the synchronous code up to the next await.                           *)
(* A call run in the executor (store read, mark, kickoff) takes effect at   *)
(* the step that completes its await.                                      *)
(***************************************************************************)
EXTENDS Integers, Sequences, FiniteSets, TLC

VARIABLES
    WEBHOOK_SECRET,        \* main.py:50, read once from the environment
    MAX_CONCURRENT_TASKS,  \* main.py:53, read once from the environment
    store,            \* the tracking rows: key -> row (marks and contact data)
    tasks,            \* orchestration tasks in creation order (asyncio.create_task)
    sem_value,        \* semaphore._value
    sem_waiters,      \* semaphore._waiters, FIFO of task indices
    clock,            \* logical time: the number of mark updates persisted
    nReq,             \* number of webhook calls handled so far
    lastResp          \* the HTTP response to the last of them

vars == <<WEBHOOK_SECRET, MAX_CONCURRENT_TASKS, store, tasks, sem_value, sem_waiters, clock, nReq, lastResp>>

----------------------------------------------------------------------------
(* Bounds of the model *)

MaxEvents == 2

(* Program constants *)

MonitoredTable == "job_application_tracking"

None == "<None>"

----------------------------------------------------------------------------
(* Strings that the code inspects character by character are sequences of  *)
(* one-character strings.                                                  *)

Digits == {"0", "1", "2", "3", "4", "5", "6", "7", "8", "9"}

IsPhoneChar(c) == c \in Digits \cup {"+"}

NoPhone == << >>
Local10 == <<"5", "5", "5", "0", "1", "0", "0", "1", "2", "3">>
ShortLocal == <<"5", "5", "5", "0", "1">>
Formatted10 == <<"(", "5", "5", "5", ")", " ", "0", "1", "0", "-", "0", "1", "2", "3">>
Intl12 == <<"+", "9", "1", "9", "8", "7", "6", "5", "4", "3", "2", "1", "0">>

DEFAULT_COUNTRY_CODE == <<"+", "1">>

\* variant: the country code is put in front of every number
format_phone_number_AlwaysPrefix(phone) ==
    IF phone = NoPhone
    THEN NoPhone
    ELSE DEFAULT_COUNTRY_CODE \o SelectSeq(phone, IsPhoneChar)

\* utils.py format_phone_number
format_phone_number(phone) ==
    IF phone = NoPhone
    THEN NoPhone
    ELSE LET stripped == SelectSeq(phone, IsPhoneChar)
         IN  IF Len(stripped) > 0 /\ stripped[1] = "+"
             THEN stripped
             ELSE DEFAULT_COUNTRY_CODE \o stripped

\* utils.py validate_phone_number: ^\+\d{10,15}$
\* ($ also matches just before one trailing newline)
validate_phone_number(phone) ==
    /\ phone # NoPhone
    /\ LET core == IF phone[Len(phone)] = "\n"
                    THEN SubSeq(phone, 1, Len(phone) - 1)
                    ELSE phone
       IN  /\ Len(core) >= 1
           /\ core[1] = "+"
           /\ Len(core) - 1 >= 10
           /\ Len(core) - 1 <= 15
           /\ \A i \in 2..Len(core) : core[i] \in Digits

----------------------------------------------------------------------------
(* The webhook endpoint.  A payload is the decoded JSON object: a function  *)
(* from the keys it carries to their values; MalformedBody is a body that   *)
(* request.json() cannot decode.                                            *)

MalformedBody == [malformed |-> "not json"]

IsMalformed(p) == "malformed" \in DOMAIN p

Keys(p) == DOMAIN p

\* variant: the record is looked up under the camel-case identifier names
validate_webhook_payload_CamelCase(payload) ==
    /\ "type" \in Keys(payload)
    /\ "table" \in Keys(payload)
    /\ "record" \in Keys(payload)
    /\ "candId" \in Keys(payload.record)
    /\ "requirementId" \in Keys(payload.record)

\* utils.py validate_webhook_payload
validate_webhook_payload(payload) ==
    /\ "type" \in Keys(payload)
    /\ "table" \in Keys(payload)
    /\ "record" \in Keys(payload)
    /\ "cand_id" \in Keys(payload.record)
    /\ "requirement_id" \in Keys(payload.record)

\* Python truthiness of the two identifiers (an int and a string)
FalsyInt(v) == v = 0
FalsyStr(v) == v = ""

Reply(code, status, reason, cand, req) ==
    [code |-> code, status |-> status, reason |-> reason,
     cand_id |-> cand, requirement_id |-> req]

\* HTTPException(status_code, detail)
HTTPError(code, detail) == Reply(code, "error", <<detail>>, 0, "")

\* main.py:274, the shared-secret check
SecretRejected(secret, header) == secret # None /\ header # secret

\* variant: the event type is not looked at, only the table
webhook_response_NoTypeFilter(secret, payload, header) ==
    IF IsMalformed(payload)
    THEN HTTPError(500, "json decode error")
    ELSE IF SecretRejected(secret, header)
    THEN HTTPError(401, "Invalid webhook secret")
    ELSE IF ~validate_webhook_payload(payload)
    THEN HTTPError(400, "Invalid payload structure")
    ELSE IF payload.table # MonitoredTable
    THEN Reply(200, "ignored", <<"Table '", payload.table, "' not monitored">>, 0, "")
    ELSE IF FalsyInt(payload.record.cand_id) \/ FalsyStr(payload.record.requirement_id)
    THEN HTTPError(400, "cand_id and requirement_id required")
    ELSE Reply(202, "accepted", <<"queued">>, payload.record.cand_id,
               payload.record.requirement_id)

\* main.py webhook_handler: the response to one call, checks in code order
webhook_response(secret, payload, header) ==
    IF IsMalformed(payload)
    THEN HTTPError(500, "json decode error")
    ELSE IF SecretRejected(secret, header)
    THEN HTTPError(401, "Invalid webhook secret")
    ELSE IF ~validate_webhook_payload(payload)
    THEN HTTPError(400, "Invalid payload structure")
    ELSE IF payload.type # "INSERT"
    THEN Reply(200, "ignored", <<"Event type '", payload.type, "' not processed">>, 0, "")
    ELSE IF payload.table # MonitoredTable
    THEN Reply(200, "ignored", <<"Table '", payload.table, "' not monitored">>, 0, "")
    ELSE IF FalsyInt(payload.record.cand_id) \/ FalsyStr(payload.record.requirement_id)
    THEN HTTPError(400, "cand_id and requirement_id required")
    ELSE Reply(202, "accepted", <<"queued">>, payload.record.cand_id,
               payload.record.requirement_id)

----------------------------------------------------------------------------
(* The notification record store.  A row carries the two marks and the     *)
(* candidate's contact data; well_formed says whether the row has every    *)
(* field lines 93-185 of main.py dereference (a missing similarity_score   *)
(* or a null application_status raises there).  email_sent_at and          *)
(* sms_sent_at are the timestamp columns, 0 for null; datetime.now() of a   *)
(* later update is a later time.                                            *)

Row(id, mobile, work, home, wf) ==
    [application_id |-> id, email_sent |-> FALSE, sms_sent |-> FALSE,
     email_sent_at |-> 0, sms_sent_at |-> 0,
     candidate_mobile |-> mobile, candidate_work |-> work,
     candidate_home |-> home, well_formed |-> wf]

AbsentView ==
    [found |-> FALSE, application_id |-> 0, email_sent |-> FALSE, sms_sent |-> FALSE,
     candidate_mobile |-> NoPhone, candidate_work |-> NoPhone,
     candidate_home |-> NoPhone, well_formed |-> FALSE]

\* The stored procedure behind the read: the rows for the key that are not
\* yet fully notified (spec section 3 and the message at database.py:45).
rpc_get_application(st, cand_id, requirement_id) ==
    LET key == <<cand_id, requirement_id>>
    IN  IF key \in DOMAIN st /\ ~(st[key].email_sent /\ st[key].sms_sent)
        THEN <<st[key]>>
        ELSE << >>

\* database.py:21-86, the store read main.py imports as get_application_details;
\* db_error is the exception the function catches at line 82.
get_application_details(st, cand_id, requirement_id, db_error) ==
    IF db_error
    THEN AbsentView
    ELSE LET data == rpc_get_application(st, cand_id, requirement_id)
         IN  IF Len(data) = 0
             THEN AbsentView
             ELSE LET match == data[1]
                  IN  [found |-> TRUE,
                       application_id |-> match.application_id,
                       email_sent |-> match.email_sent,
                       sms_sent |-> match.sms_sent,
                       candidate_mobile |-> match.candidate_mobile,
                       candidate_work |-> match.candidate_work,
                       candidate_home |-> match.candidate_home,
                       well_formed |-> match.well_formed]

\* variant: the update writes the whole pair of flags, clearing sms_sent
mark_email_sent_ClearsSms(st, application_id, now, ok) ==
    IF ok
    THEN [k \in DOMAIN st |->
             IF st[k].application_id = application_id
             THEN [st[k] EXCEPT !.email_sent = TRUE, !.email_sent_at = now,
                                !.sms_sent = FALSE]
             ELSE st[k]]
    ELSE st

\* database.py mark_email_sent: the update at time now, or False when it raises
mark_email_sent(st, application_id, now, ok) ==
    IF ok
    THEN [k \in DOMAIN st |->
             IF st[k].application_id = application_id
             THEN [st[k] EXCEPT !.email_sent = TRUE, !.email_sent_at = now]
             ELSE st[k]]
    ELSE st

\* variant: the update writes the email column
mark_sms_sent_WrongColumn(st, application_id, now, ok) ==
    mark_email_sent(st, application_id, now, ok)

\* database.py mark_sms_sent
mark_sms_sent(st, application_id, now, ok) ==
    IF ok
    THEN [k \in DOMAIN st |->
             IF st[k].application_id = application_id
             THEN [st[k] EXCEPT !.sms_sent = TRUE, !.sms_sent_at = now]
             ELSE st[k]]
    ELSE st

----------------------------------------------------------------------------
(* The admission semaphore: asyncio.Semaphore(MAX_CONCURRENT_TASKS).  A     *)
(* semaphore state s is [tasks, value, waiters, woke]: a waiter whose       *)
(* future has a result has pc "woken" and stays in waiters until it runs.   *)
(* The operators follow CPython's asyncio.locks.Semaphore (3.11 and later): *)
(* release hands the slot to the first pending waiter at once, and acquire  *)
(* queues behind any waiter, also one already woken.                        *)

Min(S) == CHOOSE x \in S : \A y \in S : x <= y

RemoveFrom(seq, x) == SelectSeq(seq, LAMBDA y : y # x)

\* Semaphore._wake_up_next: hand a slot to the first waiter still pending
wake_up_next(s) ==
    LET pending == {i \in 1..Len(s.waiters) : s.tasks[s.waiters[i]].pc = "waiting"}
    IN  IF pending = {}
        THEN [s EXCEPT !.woke = FALSE]
        ELSE LET w == s.waiters[Min(pending)]
             IN  [tasks |-> [s.tasks EXCEPT ![w].pc = "woken"],
                  value |-> s.value - 1,
                  waiters |-> s.waiters,
                  woke |-> TRUE]

\* variant: release only counts the slot, it wakes nobody
sem_release_NoWake(s) == [s EXCEPT !.value = @ + 1, !.woke = FALSE]

\* Semaphore.release
sem_release(s) == wake_up_next([s EXCEPT !.value = @ + 1])

\* variant: the queue alone decides, the counter is not looked at
sem_locked_IgnoresValue(s) == Len(s.waiters) > 0

\* Semaphore.locked
sem_locked(s) == s.value = 0 \/ Len(s.waiters) > 0

RECURSIVE wake_while(_)
\* the loop that ends Semaphore.acquire: wake as many waiters as value allows
wake_while(s) ==
    IF s.value > 0
    THEN LET n == wake_up_next(s)
         IN  IF n.woke THEN wake_while(n) ELSE n
    ELSE s

\* variant: an exception leaves the section without giving the slot back
async_with_exit_LeakOnRaise(s, r) ==
    IF r.ret = "exception" THEN s ELSE sem_release(s)

\* main.py:71, leaving "async with semaphore" (return, fall-through or raise)
\* as task record r
async_with_exit(s, r) == sem_release(s)

----------------------------------------------------------------------------
(* process_notifications_for_application.  A task record holds the         *)
(* coroutine's arguments, the await it is suspended in (pc), its locals,    *)
(* and what it has done so far:                                             *)
(*   email      "none" | "inflight" | "delivered" | "tool_error" | "raised" *)
(*   sms        the same, or "skip_no_phone" | "skip_invalid"               *)
(*   *_mark     "none" | "ok" | "failed"   (the mark call this run made)    *)
(*   ret        "none" | "noop" | "summary" | "exception"                   *)
(* A sender outcome "tool_error" is a provider failure that the tool's      *)
(* except clause turned into a returned string, so kickoff returns;         *)
(* "raised" is kickoff raising.  sms_body_len is the length of the message  *)
(* body the SMS crew handed to its tool, 0 while there is none.             *)

NewTask(cand_id, requirement_id) ==
    [cand_id |-> cand_id, requirement_id |-> requirement_id, pc |-> "created",
     view |-> AbsentView, candidate_mobile |-> NoPhone, formatted_phone |-> NoPhone,
     email |-> "none", email_mark |-> "none",
     sms |-> "none", sms_mark |-> "none", sms_body_len |-> 0, ret |-> "none"]

SenderOutcomes == {"delivered", "tool_error", "raised"}

\* twilio_sms_tool.py:62, the longest body the tool passes on
SMS_MAX_CHARS == 1600

\* Lengths of the bodies the SMS crew writes: within the cap, and one over it
BodyLengths == {160, SMS_MAX_CHARS + 1}

\* twilio_sms_tool.py _run: a body over the cap is answered by an error
\* string before the provider is called, and so is a provider failure
TwilioSMSTool_run(body_len, provider_ok) ==
    IF body_len > SMS_MAX_CHARS THEN "tool_error"
    ELSE IF provider_ok THEN "delivered"
    ELSE "tool_error"

\* What main.py prints after the SMS kickoff: line 231 whenever it returned,
\* line 234 when it raised
sms_log(r) ==
    IF r.sms \in {"delivered", "tool_error"} THEN "SMS sent successfully"
    ELSE IF r.sms = "raised" THEN "Error sending SMS"
    ELSE "none"

\* main.py:244-251, the summary a finished run returns: the negation of the
\* flags it read
summary(r) ==
    [status |-> "completed", application_id |-> r.view.application_id,
     email_sent |-> ~r.view.email_sent, sms_sent |-> ~r.view.sms_sent]

\* variant: the fields are tried in the order home, work, mobile
resolve_mobile_HomeFirst(candidate) ==
    IF candidate.candidate_home # NoPhone THEN candidate.candidate_home
    ELSE IF candidate.candidate_work # NoPhone THEN candidate.candidate_work
    ELSE IF candidate.candidate_mobile # NoPhone THEN candidate.candidate_mobile
    ELSE NoPhone

\* main.py:103-109, the destination by priority mobile, work, home
resolve_mobile(candidate) ==
    IF candidate.candidate_mobile # NoPhone THEN candidate.candidate_mobile
    ELSE IF candidate.candidate_work # NoPhone THEN candidate.candidate_work
    ELSE IF candidate.candidate_home # NoPhone THEN candidate.candidate_home
    ELSE NoPhone

\* main.py:240-251, the summary returned at the end of the run
completed(r) == [r EXCEPT !.pc = "done", !.ret = "summary"]

\* variant: the SMS branch does not look at sms_sent
sms_stage_IgnoresFlag(r) ==
    IF r.candidate_mobile = NoPhone
    THEN [r EXCEPT !.sms = "skip_no_phone", !.pc = "sms_skip_marking"]
    ELSE IF ~validate_phone_number(r.formatted_phone)
    THEN [r EXCEPT !.sms = "skip_invalid", !.pc = "sms_skip_marking"]
    ELSE [r EXCEPT !.sms = "inflight", !.pc = "sms_sending"]

\* variant: without a phone number the SMS branch only logs and goes on
sms_stage_SkipWithoutMark(r) ==
    IF ~r.view.sms_sent
    THEN IF r.candidate_mobile = NoPhone
         THEN completed([r EXCEPT !.sms = "skip_no_phone"])
         ELSE IF ~validate_phone_number(r.formatted_phone)
         THEN [r EXCEPT !.sms = "skip_invalid", !.pc = "sms_skip_marking"]
         ELSE [r EXCEPT !.sms = "inflight", !.pc = "sms_sending"]
    ELSE completed(r)

\* variant: the formatted number is not validated before the send
sms_stage_NoValidation(r) ==
    IF ~r.view.sms_sent
    THEN IF r.candidate_mobile = NoPhone
         THEN [r EXCEPT !.sms = "skip_no_phone", !.pc = "sms_skip_marking"]
         ELSE [r EXCEPT !.sms = "inflight", !.pc = "sms_sending"]
    ELSE completed(r)

\* variant: the SMS branch looks the flag up in the store again instead of
\* using the local read at line 98
sms_stage_RereadsFlag(r) ==
    IF ~store[<<r.cand_id, r.requirement_id>>].sms_sent
    THEN IF r.candidate_mobile = NoPhone
         THEN [r EXCEPT !.sms = "skip_no_phone", !.pc = "sms_skip_marking"]
         ELSE IF ~validate_phone_number(r.formatted_phone)
         THEN [r EXCEPT !.sms = "skip_invalid", !.pc = "sms_skip_marking"]
         ELSE [r EXCEPT !.sms = "inflight", !.pc = "sms_sending"]
    ELSE completed(r)

\* main.py:210-238, the SMS branch up to its first await
sms_stage(r) ==
    IF ~r.view.sms_sent
    THEN IF r.candidate_mobile = NoPhone
         THEN [r EXCEPT !.sms = "skip_no_phone", !.pc = "sms_skip_marking"]
         ELSE IF ~validate_phone_number(r.formatted_phone)
         THEN [r EXCEPT !.sms = "skip_invalid", !.pc = "sms_skip_marking"]
         ELSE [r EXCEPT !.sms = "inflight", !.pc = "sms_sending"]
    ELSE completed(r)

\* variant: the email branch does not look at email_sent
email_stage_IgnoresFlag(r) == [r EXCEPT !.email = "inflight", !.pc = "email_sending"]

\* main.py:187-208, the email branch up to its first await
email_stage(r) ==
    IF ~r.view.email_sent
    THEN [r EXCEPT !.email = "inflight", !.pc = "email_sending"]
    ELSE sms_stage(r)

\* main.py:233-236
sms_failed(r) == completed([r EXCEPT !.sms = "raised"])

\* main.py:253-258, the outer except: log and re-raise out of the coroutine
run_raised(r) == [r EXCEPT !.pc = "done", !.ret = "exception"]

\* variant: no inner try, a raising kickoff reaches the outer except
email_failed_Propagates(r) == run_raised([r EXCEPT !.email = "raised"])

\* main.py:203-206, kickoff or the mark call raised: log and go on to SMS
email_failed(r) == sms_stage([r EXCEPT !.email = "raised"])

\* variant: no early return, the body goes on to subscript the missing view
after_read_NoEarlyReturn(r, app_data) ==
    IF ~app_data.found
    THEN run_raised([r EXCEPT !.view = app_data])
    ELSE LET candidate_mobile == resolve_mobile(app_data)
             r1 == [r EXCEPT !.view = app_data,
                             !.candidate_mobile = candidate_mobile,
                             !.formatted_phone = format_phone_number(candidate_mobile)]
         IN  IF ~app_data.well_formed
             THEN run_raised(r1)
             ELSE email_stage(r1)

\* variant: a field the preparation cannot use is replaced by a default, so
\* an incomplete row reaches the channel stage
after_read_DefaultsMissing(r, app_data) ==
    IF ~app_data.found
    THEN [r EXCEPT !.pc = "done", !.ret = "noop", !.view = app_data]
    ELSE LET candidate_mobile == resolve_mobile(app_data)
             r1 == [r EXCEPT !.view = app_data,
                             !.candidate_mobile = candidate_mobile,
                             !.formatted_phone = format_phone_number(candidate_mobile)]
         IN  email_stage(r1)

\* main.py:89-185, from the store read's result to the channel stage
after_read(r, app_data) ==
    IF ~app_data.found
    THEN [r EXCEPT !.pc = "done", !.ret = "noop", !.view = app_data]
    ELSE LET candidate_mobile == resolve_mobile(app_data)
             r1 == [r EXCEPT !.view = app_data,
                             !.candidate_mobile = candidate_mobile,
                             !.formatted_phone = format_phone_number(candidate_mobile)]
         IN  IF ~app_data.well_formed
             THEN run_raised(r1)
             ELSE email_stage(r1)

\* datetime.now() in a mark call, and the time after the call
Now == clock + 1

Tick(ok) == IF ok THEN clock + 1 ELSE clock

\* The state after task t has become r2 and the store st2: a task that has
\* left the coroutine body also leaves "async with semaphore".
Advance(t, r2, st2, clk2) ==
    LET s0 == [tasks |-> [tasks EXCEPT ![t] = r2], value |-> sem_value,
               waiters |-> sem_waiters, woke |-> FALSE]
        s1 == IF r2.pc = "done" THEN async_with_exit(s0, r2) ELSE s0
    IN  /\ tasks' = s1.tasks
        /\ sem_value' = s1.value
        /\ sem_waiters' = s1.waiters
        /\ store' = st2
        /\ clock' = clk2
        /\ UNCHANGED <<WEBHOOK_SECRET, MAX_CONCURRENT_TASKS, nReq, lastResp>>

\* main.py:71, the task starts running and enters "async with semaphore":
\* Semaphore.acquire takes a slot at once or queues the task
Start(t) ==
    /\ tasks[t].pc = "created"
    /\ LET s == [tasks |-> tasks, value |-> sem_value, waiters |-> sem_waiters,
                 woke |-> FALSE]
       IN  IF ~sem_locked(s)
           THEN /\ sem_value' = sem_value - 1
                /\ sem_waiters' = sem_waiters
                /\ tasks' = [tasks EXCEPT ![t].pc = "reading"]
           ELSE /\ sem_value' = sem_value
                /\ sem_waiters' = Append(sem_waiters, t)
                /\ tasks' = [tasks EXCEPT ![t].pc = "waiting"]
    /\ UNCHANGED <<WEBHOOK_SECRET, MAX_CONCURRENT_TASKS, store, clock, nReq, lastResp>>

\* Semaphore.acquire after its future got a result: leave the queue, wake
\* further waiters while slots are free, enter the body
Resume(t) ==
    /\ tasks[t].pc = "woken"
    /\ LET s == wake_while([tasks |-> [tasks EXCEPT ![t].pc = "reading"],
                            value |-> sem_value,
                            waiters |-> RemoveFrom(sem_waiters, t),
                            woke |-> FALSE])
       IN  /\ tasks' = s.tasks
           /\ sem_value' = s.value
           /\ sem_waiters' = s.waiters
    /\ UNCHANGED <<WEBHOOK_SECRET, MAX_CONCURRENT_TASKS, store, clock, nReq, lastResp>>

\* variant: the read claims the email channel by marking it
ReadDone_MarksOnRead(t, db_error) ==
    /\ tasks[t].pc = "reading"
    /\ Advance(t, after_read(tasks[t],
                   get_application_details(store, tasks[t].cand_id,
                                           tasks[t].requirement_id, db_error)),
               mark_email_sent(store, 1, Now, TRUE), Tick(TRUE))

\* main.py:82-98, the store read returns
ReadDone(t, db_error) ==
    /\ tasks[t].pc = "reading"
    /\ Advance(t, after_read(tasks[t],
                   get_application_details(store, tasks[t].cand_id,
                                           tasks[t].requirement_id, db_error)),
               store, clock)

\* variant: the SMS kickoff is submitted to the executor as soon as the email
\* kickoff returns, while the email mark is still being written
EmailDone_StartsSmsEarly(t, outcome) ==
    /\ tasks[t].pc = "email_sending"
    /\ Advance(t,
               IF outcome = "raised"
               THEN email_failed(tasks[t])
               ELSE [tasks[t] EXCEPT !.email = outcome, !.pc = "email_marking",
                                     !.sms = "inflight"],
               store, clock)

\* main.py:199-206, the email crew's kickoff returns or raises
EmailDone(t, outcome) ==
    /\ tasks[t].pc = "email_sending"
    /\ Advance(t,
               IF outcome = "raised"
               THEN email_failed(tasks[t])
               ELSE [tasks[t] EXCEPT !.email = outcome, !.pc = "email_marking"],
               store, clock)

\* variant: a mark call that returns False is treated as a failure of the run
MarkEmailDone_ActsOnFailure(t, ok) ==
    /\ tasks[t].pc = "email_marking"
    /\ Advance(t,
               IF ok
               THEN sms_stage([tasks[t] EXCEPT !.email_mark = "ok"])
               ELSE run_raised([tasks[t] EXCEPT !.email_mark = "failed"]),
               mark_email_sent(store, tasks[t].view.application_id, Now, ok),
               Tick(ok))

\* main.py:202, mark_email_sent returns (its result is not looked at)
MarkEmailDone(t, ok) ==
    /\ tasks[t].pc = "email_marking"
    /\ Advance(t,
               sms_stage([tasks[t] EXCEPT !.email_mark = IF ok THEN "ok" ELSE "failed"]),
               mark_email_sent(store, tasks[t].view.application_id, Now, ok),
               Tick(ok))

\* main.py:214 and 217, mark_sms_sent for a destination that cannot be used
SmsSkipMarkDone(t, ok) ==
    /\ tasks[t].pc = "sms_skip_marking"
    /\ Advance(t,
               completed([tasks[t] EXCEPT !.sms_mark = IF ok THEN "ok" ELSE "failed"]),
               mark_sms_sent(store, tasks[t].view.application_id, Now, ok),
               Tick(ok))

\* main.py:229-236, the SMS crew's kickoff returns or raises
SmsDone(t, outcome, body_len) ==
    /\ tasks[t].pc = "sms_sending"
    /\ \/ outcome = "raised"
       \/ \E provider_ok \in BOOLEAN : outcome = TwilioSMSTool_run(body_len, provider_ok)
    /\ Advance(t,
               IF outcome = "raised"
               THEN sms_failed(tasks[t])
               ELSE [tasks[t] EXCEPT !.sms = outcome, !.sms_body_len = body_len,
                                     !.pc = "sms_marking"],
               store, clock)

\* main.py:232, mark_sms_sent after a send
MarkSmsDone(t, ok) ==
    /\ tasks[t].pc = "sms_marking"
    /\ Advance(t,
               completed([tasks[t] EXCEPT !.sms_mark = IF ok THEN "ok" ELSE "failed"]),
               mark_sms_sent(store, tasks[t].view.application_id, Now, ok),
               Tick(ok))

----------------------------------------------------------------------------
(* webhook_handler: one call is one atomic step (its only await is the     *)
(* body read); create_task schedules the coroutine without running it.     *)

OkRecord == [cand_id |-> 42, requirement_id |-> "R9"]

Event(ty, tb, rec) == [type |-> ty, table |-> tb, record |-> rec]

Payloads ==
    { Event(ty, tb, OkRecord) :
        ty \in {"INSERT", "UPDATE"}, tb \in {MonitoredTable, "other_table"} }
    \cup { Event("INSERT", MonitoredTable, rec) :
             rec \in { [cand_id |-> 7, requirement_id |-> "R9"],
                       [cand_id |-> 0, requirement_id |-> "R9"],
                       [cand_id |-> 42, requirement_id |-> ""],
                       [candId |-> 42, requirementId |-> "R9"] } }
    \cup { Event("UPDATE", "other_table", [cand_id |-> 42]),
           [table |-> MonitoredTable, record |-> OkRecord],
           MalformedBody }

\* the calls made: every payload without the header, and two payloads with
\* the right and with a wrong X-Webhook-Secret
Requests ==
    { [payload |-> p, header |-> None] : p \in Payloads }
    \cup { [payload |-> p, header |-> h] :
             p \in {Event("INSERT", MonitoredTable, OkRecord), MalformedBody},
             h \in {"s3cret", "wrong"} }

\* variant: the handler awaits the coroutine instead of scheduling it, so the
\* run has entered the semaphore when the response is built
WebhookHandler_Awaits(payload, header) ==
    LET resp == webhook_response(WEBHOOK_SECRET, payload, header)
        accepted == resp.code = 202
    IN  /\ nReq < MaxEvents
        /\ nReq' = nReq + 1
        /\ lastResp' = resp
        /\ accepted => sem_value > 0
        /\ tasks' = IF accepted
                    THEN Append(tasks, [NewTask(resp.cand_id, resp.requirement_id)
                                           EXCEPT !.pc = "reading"])
                    ELSE tasks
        /\ sem_value' = IF accepted THEN sem_value - 1 ELSE sem_value
        /\ UNCHANGED <<WEBHOOK_SECRET, MAX_CONCURRENT_TASKS, store, clock, sem_waiters>>

\* main.py:261-340
WebhookHandler(payload, header) ==
    LET resp == webhook_response(WEBHOOK_SECRET, payload, header)
    IN  /\ nReq < MaxEvents
        /\ nReq' = nReq + 1
        /\ lastResp' = resp
        /\ tasks' = IF resp.code = 202
                    THEN Append(tasks, NewTask(resp.cand_id, resp.requirement_id))
                    ELSE tasks
        /\ UNCHANGED <<WEBHOOK_SECRET, MAX_CONCURRENT_TASKS, store, clock, sem_value, sem_waiters>>

----------------------------------------------------------------------------

ContactProfiles ==
    { <<Formatted10, NoPhone, NoPhone>>,
      <<NoPhone, NoPhone, NoPhone>>,
      <<ShortLocal, Intl12, NoPhone>> }

StoredKey == <<42, "R9">>

\* the environment and the row the process starts with
Configurations ==
    { [secret |-> None, slots |-> 2, contact |-> c, wf |-> TRUE] : c \in ContactProfiles }
    \cup { [secret |-> None, slots |-> 1, contact |-> <<NoPhone, NoPhone, Intl12>>,
            wf |-> TRUE],
           [secret |-> "s3cret", slots |-> 1, contact |-> <<NoPhone, Formatted10, Intl12>>,
            wf |-> TRUE] }
    \cup { [secret |-> None, slots |-> 2, contact |-> <<Formatted10, NoPhone, NoPhone>>,
            wf |-> FALSE] }

Init ==
    /\ \E cfg \in Configurations :
          /\ WEBHOOK_SECRET = cfg.secret
          /\ MAX_CONCURRENT_TASKS = cfg.slots
          /\ sem_value = cfg.slots
          /\ store = [k \in {StoredKey} |->
                         Row(1, cfg.contact[1], cfg.contact[2], cfg.contact[3], cfg.wf)]
    /\ tasks = << >>
    /\ sem_waiters = << >>
    /\ clock = 0
    /\ nReq = 0
    /\ lastResp = Reply(0, "none", << >>, 0, "")

Next ==
    \/ \E q \in Requests : WebhookHandler(q.payload, q.header)
    \/ \E t \in 1..Len(tasks) : Start(t)
    \/ \E t \in 1..Len(tasks) : Resume(t)
    \/ \E t \in 1..Len(tasks), e \in BOOLEAN : ReadDone(t, e)
    \/ \E t \in 1..Len(tasks), o \in SenderOutcomes : EmailDone(t, o)
    \/ \E t \in 1..Len(tasks), ok \in BOOLEAN : MarkEmailDone(t, ok)
    \/ \E t \in 1..Len(tasks), ok \in BOOLEAN : SmsSkipMarkDone(t, ok)
    \/ \E t \in 1..Len(tasks), o \in SenderOutcomes, n \in BodyLengths : SmsDone(t, o, n)
    \/ \E t \in 1..Len(tasks), ok \in BOOLEAN : MarkSmsDone(t, ok)

Spec == Init /\ [][Next]_vars

\* One step of task t.  The event loop keeps running the tasks that are
\* ready, and the executor returns every store and sender call that was
\* started, so while some task can take a step some task takes one.
TaskStep(t) ==
    \/ Start(t)
    \/ Resume(t)
    \/ \E e \in BOOLEAN : ReadDone(t, e)
    \/ \E o \in SenderOutcomes : EmailDone(t, o)
    \/ \E ok \in BOOLEAN : MarkEmailDone(t, ok)
    \/ \E ok \in BOOLEAN : SmsSkipMarkDone(t, ok)
    \/ \E o \in SenderOutcomes, n \in BodyLengths : SmsDone(t, o, n)
    \/ \E ok \in BOOLEAN : MarkSmsDone(t, ok)

Fairness == WF_vars(\E t \in 1..Len(tasks) : TaskStep(t))

\* the program while the server is not shut down and every call returns
LiveSpec == Init /\ [][Next]_vars /\ Fairness

----------------------------------------------------------------------------
(* GET /health reads the module state and changes nothing.                  *)

\* variant: the tasks still queued are counted as active
health_check_CountsQueue ==
    [max_concurrent_tasks |-> MAX_CONCURRENT_TASKS,
     available_slots |-> sem_value,
     active_tasks |-> MAX_CONCURRENT_TASKS - sem_value + Len(sem_waiters)]

\* main.py:381-385, the "concurrency" part of the health response
health_check ==
    [max_concurrent_tasks |-> MAX_CONCURRENT_TASKS,
     available_slots |-> sem_value,
     active_tasks |-> MAX_CONCURRENT_TASKS - sem_value]

----------------------------------------------------------------------------
(* The phone helpers on their own: the same program, started with a row     *)
(* whose mobile field is any of the phone strings below.                    *)

Plus(digits) == <<"+">> \o digits

\* phone strings: empty, without and with the "+", with 9, 10, 12, 15 and
\* 16 digits, with punctuation, with a "+" that is not the first character,
\* and with a line end after the last digit
PhoneInputs ==
    { NoPhone, Local10, ShortLocal, Formatted10, Intl12,
      Plus(Local10),
      Plus(SubSeq(Local10, 1, 9)),
      Plus(Local10 \o ShortLocal),
      Plus(Local10 \o ShortLocal \o <<"7">>),
      <<" ">> \o Intl12,
      ShortLocal \o Plus(ShortLocal),
      Plus(ShortLocal) \o Plus(Local10),
      <<"+", "1", " ", "(", "5", "5", "5", ")", " ", "0", "1", "0", "-", "0", "1", "2", "3">>,
      Intl12 \o <<"\n">> }

InitPhones ==
    /\ WEBHOOK_SECRET = None
    /\ MAX_CONCURRENT_TASKS = 1
    /\ sem_value = 1
    /\ \E phone \in PhoneInputs :
          store = [k \in {StoredKey} |-> Row(1, phone, NoPhone, NoPhone, TRUE)]
    /\ tasks = << >>
    /\ sem_waiters = << >>
    /\ clock = 0
    /\ nReq = 0
    /\ lastResp = Reply(0, "none", << >>, 0, "")

PhoneSpec == InitPhones /\ [][Next]_vars

----------------------------------------------------------------------------
(* Shutdown.  When the server stops, the event loop cancels the tasks that  *)
(* are still pending.  A task suspended in Semaphore.acquire gets the       *)
(* CancelledError inside "async with semaphore" (main.py:71) before the     *)
(* body: acquire leaves the queue, gives back the slot if its future had    *)
(* already been given one, and wakes the waiters the free slots allow.      *)
(* CancelledError is not an Exception, so no except clause of the           *)
(* coroutine sees it.                                                       *)

Abandoned(r) == [r EXCEPT !.pc = "cancelled", !.ret = "cancelled"]

\* variant: a waiter that was already handed a slot keeps it when cancelled
Cancel_KeepsSlot(t) ==
    /\ tasks[t].pc \in {"waiting", "woken"}
    /\ LET s == wake_while([tasks |-> [tasks EXCEPT ![t] = Abandoned(tasks[t])],
                            value |-> sem_value,
                            waiters |-> RemoveFrom(sem_waiters, t),
                            woke |-> FALSE])
       IN  /\ tasks' = s.tasks
           /\ sem_value' = s.value
           /\ sem_waiters' = s.waiters
    /\ UNCHANGED <<WEBHOOK_SECRET, MAX_CONCURRENT_TASKS, store, clock, nReq, lastResp>>

\* main.py:71, the task is cancelled while suspended in acquire
Cancel(t) ==
    /\ tasks[t].pc \in {"waiting", "woken"}
    /\ LET s == wake_while([tasks |-> [tasks EXCEPT ![t] = Abandoned(tasks[t])],
                            value |-> IF tasks[t].pc = "woken"
                                      THEN sem_value + 1 ELSE sem_value,
                            waiters |-> RemoveFrom(sem_waiters, t),
                            woke |-> FALSE])
       IN  /\ tasks' = s.tasks
           /\ sem_value' = s.value
           /\ sem_waiters' = s.waiters
    /\ UNCHANGED <<WEBHOOK_SECRET, MAX_CONCURRENT_TASKS, store, clock, nReq, lastResp>>

NextShutdown ==
    \/ Next
    \/ \E t \in 1..Len(tasks) : Cancel(t)

SpecShutdown == Init /\ [][NextShutdown]_vars

----------------------------------------------------------------------------
(* Vocabulary of the properties *)

TaskIds == 1..Len(tasks)

Sections == {"reading", "email_sending", "email_marking", "sms_skip_marking",
             "sms_sending", "sms_marking"}

\* runs between acquire and release: in the body, or handed a slot and not
\* yet resumed
Holds(r) == r.pc \in Sections \/ r.pc = "woken"

Holders == {t \in TaskIds : Holds(tasks[t])}

HoldersAfter == {t \in 1..Len(tasks') : Holds(tasks'[t])}

Returned == {"delivered", "tool_error"}

EmailInvoked(r) == r.email # "none"

SmsInvoked(r) == r.sms \in {"inflight", "delivered", "tool_error", "raised"}

KeyOf(r) == <<r.cand_id, r.requirement_id>>

Ended(r) == r.pc = "done"

\* the view had both channels owed, a usable destination and a complete row
FreshValidView(v) ==
    /\ v.found /\ ~v.email_sent /\ ~v.sms_sent /\ v.well_formed
    /\ validate_phone_number(format_phone_number(resolve_mobile(v)))

C2_TransientFailureLeavesMarkUnset ==
    \A t \in TaskIds :
        /\ tasks[t].email \in {"tool_error", "raised"} =>
              (tasks[t].email_mark = "none" /\ tasks[t].pc # "email_marking")
        /\ tasks[t].sms \in {"tool_error", "raised"} =>
              (tasks[t].sms_mark = "none" /\ tasks[t].pc # "sms_marking")

\* C3: at most MAX_CONCURRENT_TASKS runs hold a slot; a run that asks for a slot
\* while that many hold one is suspended; a suspended run has read nothing,
\* sent nothing and marked nothing, and leaves the queue only with a slot that
\* a finishing run gave back (or that was free).
C3_Bound == Cardinality(Holders) <= MAX_CONCURRENT_TASKS

C3_SuspendedIdle ==
    \A t \in TaskIds :
        tasks[t].pc \in {"created", "waiting", "woken"} =>
            [tasks[t] EXCEPT !.pc = "created"]
                = NewTask(tasks[t].cand_id, tasks[t].requirement_id)

C3_SuspendStep ==
    \A t \in TaskIds :
        /\ (tasks[t].pc = "created" /\ tasks'[t].pc # "created"
               /\ Cardinality(Holders) = MAX_CONCURRENT_TASKS)
             => tasks'[t].pc = "waiting"
        /\ tasks[t].pc = "waiting" =>
             \/ tasks'[t].pc = "waiting"
             \/ /\ tasks'[t].pc = "woken"
                /\ \/ \E u \in Holders : tasks'[u].pc = "done"
                   \/ sem_value > 0

C3_AdmissionBound == [](C3_Bound /\ C3_SuspendedIdle) /\ [][C3_SuspendStep]_vars

C3_Witness ==
    /\ Cardinality(Holders) = MAX_CONCURRENT_TASKS
    /\ \E t \in TaskIds : tasks[t].pc = "waiting"
    /\ \E u \in TaskIds : tasks[u].pc = "email_sending"

\* C4: every run that acquired a slot gives back exactly one when it ends,
\* whatever the exit path: the slots held plus the slots free are always
\* MAX_CONCURRENT_TASKS, so with no run in flight all of them are free.
C4_SlotsConserved ==
    /\ sem_value + Cardinality(Holders) = MAX_CONCURRENT_TASKS
    /\ (\A t \in TaskIds : Ended(tasks[t]) \/ tasks[t].pc = "created")
          => sem_value = MAX_CONCURRENT_TASKS

C4_Witness ==
    /\ Len(tasks) = 2
    /\ \A t \in TaskIds : Ended(tasks[t])
    /\ \E t \in TaskIds : tasks[t].ret = "exception"
    /\ \E t \in TaskIds : tasks[t].ret = "noop"
    /\ sem_value = MAX_CONCURRENT_TASKS

\* C5: a run whose store read found a channel already marked never invokes
\* that channel's sender, also when only one of the two channels is marked;
\* and the flags of the view are the marks persisted when the read happened.
C5_NoSendOnceMarked ==
    \A t \in TaskIds :
        /\ (tasks[t].view.found /\ tasks[t].view.email_sent) => ~EmailInvoked(tasks[t])
        /\ (tasks[t].view.found /\ tasks[t].view.sms_sent) => tasks[t].sms = "none"

C5_ReadSeesMarks ==
    \A t \in TaskIds :
        (tasks[t].pc = "reading" /\ tasks'[t].pc # "reading" /\ tasks'[t].view.found) =>
            /\ tasks'[t].view.email_sent = store[KeyOf(tasks[t])].email_sent
            /\ tasks'[t].view.sms_sent = store[KeyOf(tasks[t])].sms_sent

C5_AtMostOncePerChannel == []C5_NoSendOnceMarked /\ [][C5_ReadSeesMarks]_vars

C5_Witness ==
    \E t \in TaskIds :
        /\ Ended(tasks[t]) /\ tasks[t].view.found
        /\ tasks[t].view.email_sent /\ ~tasks[t].view.sms_sent
        /\ ~EmailInvoked(tasks[t]) /\ SmsInvoked(tasks[t])

FullyNotified(key) ==
    key \in DOMAIN store /\ store[key].email_sent /\ store[key].sms_sent

\* C6: a run whose store read happens once the application is fully notified
\* gets no view and ends as a no-op, with no sender invocation and no mark
\* write.
C6_ReadStep ==
    \A t \in TaskIds :
        (tasks[t].pc = "reading" /\ tasks'[t].pc # "reading"
           /\ FullyNotified(KeyOf(tasks[t]))) =>
            /\ tasks'[t] = [NewTask(tasks[t].cand_id, tasks[t].requirement_id)
                               EXCEPT !.pc = "done", !.ret = "noop"]
            /\ store' = store

C6_SecondRunIsNoOp == [][C6_ReadStep]_vars

C6_Witness ==
    /\ Len(tasks) = 2
    /\ FullyNotified(StoredKey)
    /\ Ended(tasks[1]) /\ tasks[1].email_mark = "ok" /\ tasks[1].sms_mark = "ok"
    /\ KeyOf(tasks[2]) = StoredKey
    /\ Ended(tasks[2]) /\ tasks[2].ret = "noop"

RunsFor(key) == {t \in TaskIds : KeyOf(tasks[t]) = key}

\* runs whose store read came before the channel's mark was persisted
ReadBeforeEmailMark(key) ==
    {t \in RunsFor(key) : tasks[t].view.found /\ ~tasks[t].view.email_sent}

ReadBeforeSmsMark(key) ==
    {t \in RunsFor(key) : tasks[t].view.found /\ ~tasks[t].view.sms_sent}

EmailCalls(key) == Cardinality({t \in RunsFor(key) : EmailInvoked(tasks[t])})

SmsCalls(key) == Cardinality({t \in RunsFor(key) : SmsInvoked(tasks[t])})

\* C7: for interleaved runs on one application, a channel's sender is invoked
\* at most once per run whose read came before that channel's mark was
\* persisted (so at most twice for two racing events), and the marks are what
\* a single run leaves: a mark is set exactly when some run's write of it
\* succeeded.
C7_RacingRunsBounded ==
    \A key \in DOMAIN store :
        /\ EmailCalls(key) <= Cardinality(ReadBeforeEmailMark(key))
        /\ SmsCalls(key) <= Cardinality(ReadBeforeSmsMark(key))
        /\ Cardinality(RunsFor(key)) = 2 => (EmailCalls(key) <= 2 /\ SmsCalls(key) <= 2)
        /\ store[key].email_sent <=> \E t \in RunsFor(key) : tasks[t].email_mark = "ok"
        /\ store[key].sms_sent <=> \E t \in RunsFor(key) : tasks[t].sms_mark = "ok"

C7_Witness ==
    /\ Len(tasks) = 2
    /\ \A t \in TaskIds :
          /\ Ended(tasks[t]) /\ FreshValidView(tasks[t].view)
          /\ tasks[t].email = "delivered" /\ tasks[t].sms = "delivered"
          /\ tasks[t].email_mark = "ok" /\ tasks[t].sms_mark = "ok"
    /\ FullyNotified(StoredKey)

\* C8: in one run a failed email attempt does not stop the SMS branch: a run
\* that reached the channel stage with SMS owed ends with the SMS attempted or
\* skip-marked, and returns its summary, whatever the email outcome was.
C8_ChannelsIndependent ==
    \A t \in TaskIds :
        /\ tasks[t].email = "raised" => tasks[t].ret # "exception"
        /\ (Ended(tasks[t]) /\ tasks[t].view.found /\ tasks[t].view.well_formed) =>
              /\ tasks[t].ret = "summary"
              /\ ~tasks[t].view.sms_sent => tasks[t].sms # "none"
              /\ ~tasks[t].view.email_sent => tasks[t].email # "none"

C8_Witness ==
    /\ Len(tasks) = 1
    /\ Ended(tasks[1]) /\ tasks[1].email = "raised"
    /\ tasks[1].sms = "delivered" /\ tasks[1].sms_mark = "ok"
    /\ ~store[StoredKey].email_sent /\ store[StoredKey].sms_sent

\* the event classes of the webhook
StructurallyValid(p) ==
    /\ {"type", "table", "record"} \subseteq DOMAIN p
    /\ {"cand_id", "requirement_id"} \subseteq DOMAIN p.record

Qualifying(q) ==
    /\ StructurallyValid(q.payload)
    /\ q.payload.type = "INSERT"
    /\ q.payload.table = MonitoredTable
    /\ (WEBHOOK_SECRET = None \/ q.header = WEBHOOK_SECRET)

Handled(q) == WebhookHandler(q.payload, q.header)

\* what "one task scheduled, the reply is 202, nothing awaited" means for a step
AcceptedStep(cand_id, requirement_id) ==
    /\ lastResp'.code = 202 /\ lastResp'.status = "accepted"
    /\ lastResp'.cand_id = cand_id /\ lastResp'.requirement_id = requirement_id
    /\ tasks' = Append(tasks, NewTask(cand_id, requirement_id))
    /\ sem_value' = sem_value /\ sem_waiters' = sem_waiters /\ store' = store

\* C9 as stated: every qualifying event (INSERT on the monitored table,
\* structurally valid, secret accepted) gets 202 and exactly one new task.
C9_EveryQualifyingAccepted ==
    [][\A q \in Requests :
          (Qualifying(q) /\ Handled(q)) =>
              AcceptedStep(q.payload.record.cand_id, q.payload.record.requirement_id)]_vars

\* C9 amended: every qualifying event whose two identifiers are non-zero and
\* non-empty gets 202 and exactly one new task, which the handler only
\* schedules: no slot is taken and no run moves in the handler's step, also
\* while every slot is held and a send is in progress.
C9_QualifyingWithIdsAccepted ==
    [][\A q \in Requests :
          (Qualifying(q) /\ Handled(q)
             /\ q.payload.record.cand_id # 0 /\ q.payload.record.requirement_id # "") =>
              AcceptedStep(q.payload.record.cand_id, q.payload.record.requirement_id)]_vars

C9_Witness ==
    /\ Len(tasks) = 2
    /\ lastResp.code = 202
    /\ tasks[2].pc = "created"
    /\ sem_value = 0
    /\ tasks[1].pc \in {"email_sending", "sms_sending"}

ScenarioAsWritten == Event("INSERT", MonitoredTable, [candId |-> 42, requirementId |-> "R9"])

ScenarioSnakeCase == Event("INSERT", MonitoredTable, [cand_id |-> 42, requirement_id |-> "R9"])

\* C10 as stated: with no secret configured the call carrying
\* record {candId: 42, requirementId: "R9"} gets 202 echoing 42 and schedules
\* exactly one task.
C10_ScenarioAsWritten ==
    [][(WEBHOOK_SECRET = None /\ WebhookHandler(ScenarioAsWritten, None)) =>
          AcceptedStep(42, "R9")]_vars

\* C10 amended: the same call with the identifiers under the keys cand_id and
\* requirement_id gets 202 echoing 42 and schedules exactly one task.
C10_ScenarioSnakeCase ==
    [][(WEBHOOK_SECRET = None /\ WebhookHandler(ScenarioSnakeCase, None)) =>
          AcceptedStep(42, "R9")]_vars

C10_Witness ==
    /\ WEBHOOK_SECRET = None
    /\ nReq = 1 /\ Len(tasks) = 1
    /\ lastResp.code = 202 /\ lastResp.cand_id = 42 /\ lastResp.requirement_id = "R9"
    /\ tasks[1].pc = "created" /\ tasks[1].cand_id = 42

----------------------------------------------------------------------------
(* The event filter and the rejections of the webhook *)

SecretAccepted(q) == WEBHOOK_SECRET = None \/ q.header = WEBHOOK_SECRET

\* an event that reaches the handler's event filter
ReachesFilter(q) == StructurallyValid(q.payload) /\ SecretAccepted(q)

IsInsertOnMonitored(p) == p.type = "INSERT" /\ p.table = MonitoredTable

NoTaskScheduled == tasks' = tasks /\ sem_value' = sem_value /\ sem_waiters' = sem_waiters

\* C11: a call schedules a run only for an INSERT on the monitored table; a
\* structurally valid event with any other type or table, its secret accepted,
\* is answered 200 with status "ignored" and a reason (for an UPDATE the
\* reason is "Event type 'UPDATE' not processed"), and schedules no run.
C11_OnlyInsertOnMonitoredProceeds ==
    [][\A q \in Requests :
          Handled(q) =>
              /\ tasks' # tasks =>
                     (StructurallyValid(q.payload) /\ IsInsertOnMonitored(q.payload))
              /\ (ReachesFilter(q) /\ ~IsInsertOnMonitored(q.payload)) =>
                     /\ lastResp'.code = 200
                     /\ lastResp'.status = "ignored"
                     /\ lastResp'.reason # << >>
                     /\ q.payload.type = "UPDATE" =>
                            lastResp'.reason = <<"Event type '", "UPDATE", "' not processed">>
                     /\ NoTaskScheduled]_vars

\* an UPDATE on the monitored table was ignored after a run had been scheduled
C11_Witness ==
    /\ nReq = 2
    /\ Len(tasks) = 1
    /\ lastResp.code = 200
    /\ lastResp.status = "ignored"
    /\ lastResp.reason = <<"Event type '", "UPDATE", "' not processed">>

IsRejectedInput(q) ==
    \/ IsMalformed(q.payload)
    \/ ~SecretAccepted(q)
    \/ ~StructurallyValid(q.payload)

C13_SecretMismatchIs401 ==
    [][\A q \in Requests :
          Handled(q) =>
              /\ (WEBHOOK_SECRET # None /\ q.header # WEBHOOK_SECRET) =>
                     (lastResp'.code = 401 /\ NoTaskScheduled)
              /\ WEBHOOK_SECRET = None =>
                     lastResp' = webhook_response(None, q.payload, None)]_vars

----------------------------------------------------------------------------
(* The SMS destination *)

SmsOwed(v) == v.found /\ ~v.sms_sent

NoPhoneAtAll(v) ==
    v.candidate_mobile = NoPhone /\ v.candidate_work = NoPhone /\ v.candidate_home = NoPhone

\* "+" followed by 10 to 15 digits
PlusDigits(phone) ==
    /\ Len(phone) \in 11..16
    /\ phone[1] = "+"
    /\ \A i \in 2..Len(phone) : phone[i] \in Digits

InvalidPhone(v) ==
    /\ resolve_mobile(v) # NoPhone
    /\ ~PlusDigits(format_phone_number(resolve_mobile(v)))

C16_OversizedBodyNeverSent ==
    \A t \in TaskIds :
        tasks[t].sms_body_len > 1600 =>
            /\ ~SmsInvoked(tasks[t])
            /\ sms_log(tasks[t]) # "SMS sent successfully"
            /\ Ended(tasks[t]) => store[KeyOf(tasks[t])].sms_sent

----------------------------------------------------------------------------
(* The run's result *)

HasRead(r) == r.pc \notin {"created", "waiting", "woken", "reading"}

\* C17: a run whose read returned no view (the application is absent, or both
\* marks were already set) is a no-op: it invokes no sender, makes no mark
\* call and ends normally, not in an error; every mark in the store was
\* written by a run that had a view.
C17_AbsentViewIsNoOp ==
    /\ \A t \in TaskIds :
           (HasRead(tasks[t]) /\ ~tasks[t].view.found) =>
               tasks[t] = [NewTask(tasks[t].cand_id, tasks[t].requirement_id)
                              EXCEPT !.pc = "done", !.ret = "noop"]
    /\ \A k \in DOMAIN store :
           /\ store[k].email_sent =>
                  \E t \in TaskIds : KeyOf(tasks[t]) = k /\ tasks[t].view.found
                                        /\ tasks[t].email_mark = "ok"
           /\ store[k].sms_sent =>
                  \E t \in TaskIds : KeyOf(tasks[t]) = k /\ tasks[t].view.found
                                        /\ tasks[t].sms_mark = "ok"

\* a run for an application the store does not hold has ended as a no-op
C17_Witness ==
    \E t \in TaskIds :
        /\ KeyOf(tasks[t]) \notin DOMAIN store
        /\ Ended(tasks[t])
        /\ tasks[t].ret = "noop"
        /\ ~store[StoredKey].email_sent /\ ~store[StoredKey].sms_sent

\* C18: a mark applied to an application that already carries it is a no-op:
\* the persisted row is what it was after the first call.
C18_SecondMarkIsNoOp ==
    [][\A k \in DOMAIN store :
          /\ store[k].email_sent =>
                 (store'[k].email_sent /\ store'[k].email_sent_at = store[k].email_sent_at)
          /\ store[k].sms_sent =>
                 (store'[k].sms_sent /\ store'[k].sms_sent_at = store[k].sms_sent_at)]_vars

\* C19: the email_sent and sms_sent flags of a run's result are true exactly
\* when that channel's send succeeded in this run.
C19_ResultReflectsThisRun ==
    \A t \in TaskIds :
        tasks[t].ret = "summary" =>
            /\ summary(tasks[t]).email_sent <=> tasks[t].email = "delivered"
            /\ summary(tasks[t]).sms_sent <=> tasks[t].sms = "delivered"

\* C20: a failure inside a run is caught at the run's boundary: no run ends
\* by raising out of its coroutine.
C20_NoRunEndsRaising ==
    \A t \in TaskIds : tasks[t].ret # "exception"

----------------------------------------------------------------------------
(* Who writes the marks *)

MarkPcs == {"email_marking", "sms_skip_marking", "sms_marking"}

EmailColumns(row) == <<row.email_sent, row.email_sent_at>>

SmsColumns(row) == <<row.sms_sent, row.sms_sent_at>>

\* task t, suspended in a mark call after its channel's outcome, gets the
\* call's success back in this step
EmailMarkStepOf(t) ==
    /\ tasks[t].pc = "email_marking"
    /\ tasks[t].email \in Returned
    /\ tasks[t].email_mark = "none" /\ tasks'[t].email_mark = "ok"

SmsMarkStepOf(t) ==
    /\ tasks[t].pc \in {"sms_skip_marking", "sms_marking"}
    /\ tasks[t].sms \in Returned \cup {"skip_no_phone", "skip_invalid"}
    /\ tasks[t].sms_mark = "none" /\ tasks'[t].sms_mark = "ok"

\* C21: the marks are written only by a run, at the mark call that follows
\* a channel's outcome, for the run's own application and that channel
\* alone; a webhook call (accepted, rejected or ignored), the store read, a
\* no-op run and every other step leave every row as it was.
C21_OnlyMarkStepsWrite ==
    [][\A k \in DOMAIN store :
          /\ store'[k] # store[k] =>
                 \E t \in TaskIds :
                     /\ tasks[t].view.found
                     /\ tasks[t].view.application_id = store[k].application_id
                     /\ \/ EmailMarkStepOf(t) /\ SmsColumns(store'[k]) = SmsColumns(store[k])
                        \/ SmsMarkStepOf(t) /\ EmailColumns(store'[k]) = EmailColumns(store[k])
          /\ (\A t \in TaskIds : tasks[t].pc \notin MarkPcs) => store'[k] = store[k]]_vars

\* a row with the email mark written, after a later event was ignored
C21_Witness ==
    /\ nReq = 2
    /\ lastResp.status = "ignored"
    /\ store[StoredKey].email_sent /\ ~store[StoredKey].sms_sent
    /\ \E t \in TaskIds : tasks[t].email_mark = "ok" /\ tasks[t].pc = "sms_sending"

----------------------------------------------------------------------------
(* The queue in front of the semaphore *)

\* runs created and not yet given a slot
Backlog == {t \in TaskIds : tasks[t].pc \in {"created", "waiting"}}

\* C22: while all slots are held, the number of runs created and waiting for
\* a slot stays under a bound that does not grow with the number of events:
\* it stays below the number of events beyond the MAX_CONCURRENT_TASKS
\* admitted ones.
C22_BacklogBounded ==
    sem_value = 0 => Cardinality(Backlog) < MaxEvents - MAX_CONCURRENT_TASKS

\* C23: a run cancelled while suspended in acquire is abandoned without side
\* effects: it has read nothing, sent nothing and made no mark call, it is no
\* longer queued, and the slots are what they would be had it never been
\* started: slots free and slots held still add up to MAX_CONCURRENT_TASKS,
\* all of them are free once no run is in flight, and no run is left waiting
\* next to a free slot that nobody was handed.
C23_CancelledInAcquireLeavesNoTrace ==
    /\ \A t \in TaskIds :
           tasks[t].pc = "cancelled" =>
               /\ tasks[t] = Abandoned(NewTask(tasks[t].cand_id, tasks[t].requirement_id))
               /\ \A i \in 1..Len(sem_waiters) : sem_waiters[i] # t
    /\ sem_value + Cardinality(Holders) = MAX_CONCURRENT_TASKS
    /\ (\A t \in TaskIds : tasks[t].pc \in {"created", "done", "cancelled"})
          => sem_value = MAX_CONCURRENT_TASKS
    /\ (sem_value > 0 /\ \E t \in TaskIds : tasks[t].pc = "waiting")
          => \E u \in TaskIds : tasks[u].pc = "woken"
    /\ \A k \in DOMAIN store :
           /\ store[k].email_sent => \E t \in TaskIds : tasks[t].email_mark = "ok"
           /\ store[k].sms_sent => \E t \in TaskIds : tasks[t].sms_mark = "ok"

\* the queued run was cancelled and the run that held the only slot has ended
C23_Witness ==
    /\ MAX_CONCURRENT_TASKS = 1
    /\ Len(tasks) = 2
    /\ tasks[2].pc = "cancelled"
    /\ tasks[1].pc = "done" /\ tasks[1].ret = "summary"
    /\ sem_value = 1

----------------------------------------------------------------------------
(* Liveness of admission *)

Created(i) == Len(tasks) >= i

\* the run got past acquire: it is in the body, or it has left it with a result
Admitted(i) == Created(i) /\ (tasks[i].pc \in Sections \/ tasks[i].ret # "none")

Terminated(i) == Created(i) /\ tasks[i].pc = "done"

\* C24: while the server is not shut down and every store and sender call
\* returns, every task the webhook created is eventually given a slot and
\* eventually ends, and once every task has ended every slot is free.
C24_EveryTaskAdmittedAndEnds ==
    /\ \A i \in 1..MaxEvents : Created(i) ~> Terminated(i)
    /\ [](\A t \in TaskIds : Terminated(t) => Admitted(t))
    /\ []((\A t \in TaskIds : tasks[t].pc = "done") => sem_value = MAX_CONCURRENT_TASKS)

\* the run that had to wait was handed the slot by the run that ended
C24_Witness ==
    /\ MAX_CONCURRENT_TASKS = 1
    /\ Len(tasks) = 2
    /\ tasks[1].pc = "done"
    /\ tasks[2].pc = "woken"
    /\ sem_value = 0

----------------------------------------------------------------------------
(* The phone helpers *)

PriorityOrder(v) == <<v.candidate_mobile, v.candidate_work, v.candidate_home>>

NonEmptyIn(fields) == {i \in 1..Len(fields) : fields[i] # NoPhone}

\* the first non-empty field, or NoPhone when all are empty
FirstNonEmpty(fields) ==
    IF NonEmptyIn(fields) = {} THEN NoPhone ELSE fields[Min(NonEmptyIn(fields))]

\* C25: the SMS destination is the first non-empty of mobile, work, home, in
\* that order: a run that has read a row holds that field as its destination
\* and sends to no other number, and resolve_mobile picks it for every row
\* the store holds.
C25_DestinationByPriority ==
    /\ \A t \in TaskIds :
           (HasRead(tasks[t]) /\ tasks[t].view.found) =>
               /\ tasks[t].candidate_mobile = FirstNonEmpty(PriorityOrder(tasks[t].view))
               /\ SmsInvoked(tasks[t]) =>
                      tasks[t].formatted_phone
                          = format_phone_number(FirstNonEmpty(PriorityOrder(tasks[t].view)))
    /\ \A k \in DOMAIN store :
           resolve_mobile(store[k]) = FirstNonEmpty(PriorityOrder(store[k]))

\* the mobile field is empty, work and home are not: the SMS went to work
C25_Witness ==
    \E t \in TaskIds :
        /\ tasks[t].view.found
        /\ tasks[t].view.candidate_mobile = NoPhone
        /\ tasks[t].view.candidate_work # NoPhone
        /\ tasks[t].view.candidate_home # NoPhone
        /\ tasks[t].candidate_mobile = tasks[t].view.candidate_work
        /\ tasks[t].sms = "delivered"

\* C26: validate_phone_number accepts exactly the strings made of "+" and 10
\* to 15 digits and nothing else.
C26_AcceptsExactlyPlusDigits ==
    \A k \in DOMAIN store :
        validate_phone_number(store[k].candidate_mobile)
            <=> PlusDigits(store[k].candidate_mobile)

IsDigit(c) == c \in Digits

DigitsOf(phone) == SelectSeq(phone, IsDigit)

PlusCount(phone) == Cardinality({i \in 1..Len(phone) : phone[i] = "+"})

\* the phone string a run formatted
FormattedInputs == {t \in TaskIds : HasRead(tasks[t]) /\ tasks[t].candidate_mobile # NoPhone}

\* C27 as stated: for every non-empty input without a leading "+" the result
\* is the default country code followed by the input's digits; for every
\* input starting with "+" it is the input with everything but its digits
\* removed after that "+".
C27_FormatAsStated ==
    \A t \in FormattedInputs :
        LET phone == tasks[t].candidate_mobile
        IN  tasks[t].formatted_phone
                = IF phone[1] = "+"
                  THEN Plus(DigitsOf(phone))
                  ELSE DEFAULT_COUNTRY_CODE \o DigitsOf(phone)

\* C27 amended: that holds for the inputs with no "+" other than a leading
\* one; in general every "+" is kept with the digits, and the country code
\* is added exactly when what is kept does not begin with "+".
C27_FormatKeepsPlusSigns ==
    \A t \in FormattedInputs :
        LET phone == tasks[t].candidate_mobile
            result == tasks[t].formatted_phone
            kept == SelectSeq(phone, LAMBDA c : c = "+" \/ IsDigit(c))
        IN  /\ PlusCount(phone) = 0 => result = DEFAULT_COUNTRY_CODE \o DigitsOf(phone)
            /\ (phone[1] = "+" /\ PlusCount(phone) = 1) => result = Plus(DigitsOf(phone))
            /\ (kept # << >> /\ kept[1] = "+") => result = kept
            /\ (kept = << >> \/ kept[1] # "+") => result = DEFAULT_COUNTRY_CODE \o kept
            /\ result[1] = "+"

\* a punctuated national number got the country code, and the SMS went out
C27_Witness ==
    \E t \in FormattedInputs :
        /\ tasks[t].candidate_mobile = Formatted10
        /\ tasks[t].formatted_phone = DEFAULT_COUNTRY_CODE \o Local10
        /\ tasks[t].sms = "delivered"

----------------------------------------------------------------------------
(* Slot introspection *)

\* C28: in every reachable state the health response has available_slots +
\* active_tasks = MAX_CONCURRENT_TASKS, available_slots between 0 and
\* MAX_CONCURRENT_TASKS, and active_tasks equal to the number of runs between
\* acquire and release (in the body, or handed a slot and about to enter it).
C28_HealthCountsConsistent ==
    /\ health_check.max_concurrent_tasks = MAX_CONCURRENT_TASKS
    /\ health_check.available_slots + health_check.active_tasks = MAX_CONCURRENT_TASKS
    /\ health_check.available_slots \in 0..MAX_CONCURRENT_TASKS
    /\ health_check.active_tasks = Cardinality(Holders)

\* one run in the body and one run ended: the response shows one active task
\* and one free slot
C28_Witness ==
    /\ MAX_CONCURRENT_TASKS = 2
    /\ health_check.active_tasks = 1
    /\ health_check.available_slots = 1
    /\ \E t \in TaskIds : tasks[t].pc = "sms_sending"
    /\ \E t \in TaskIds : tasks[t].pc = "done"

----------------------------------------------------------------------------
(* The result of a mark call *)

RunsOf(k) == {t \in TaskIds : KeyOf(tasks[t]) = k}

\* C29: the run does not act on what a mark call returns: after a send that
\* returned and a mark call that failed, the run goes on and ends normally;
\* the channel stays unmarked as long as no run's mark call succeeds; and a
\* run that reads the row while the channel is unmarked invokes that
\* channel's sender again.
C29_FailedMarkIsIgnored ==
    /\ \A t \in TaskIds :
           /\ tasks[t].email_mark = "failed" =>
                  /\ tasks[t].email \in Returned
                  /\ tasks[t].pc \notin {"email_sending", "email_marking"}
                  /\ tasks[t].ret \in {"none", "summary"}
                  /\ Ended(tasks[t]) => tasks[t].ret = "summary"
           /\ tasks[t].sms_mark = "failed" =>
                  /\ tasks[t].sms \in Returned \cup {"skip_no_phone", "skip_invalid"}
                  /\ Ended(tasks[t]) /\ tasks[t].ret = "summary"
    /\ \A k \in DOMAIN store :
           /\ (\A t \in RunsOf(k) : tasks[t].email_mark # "ok") => ~store[k].email_sent
           /\ (\A t \in RunsOf(k) : tasks[t].sms_mark # "ok") => ~store[k].sms_sent
           /\ \A u \in RunsOf(k) :
                  (HasRead(tasks[u]) /\ tasks[u].view.found /\ tasks[u].view.well_formed) =>
                      /\ ~store[k].email_sent => EmailInvoked(tasks[u])
                      /\ (~store[k].sms_sent /\ Ended(tasks[u])
                             /\ validate_phone_number(tasks[u].formatted_phone))
                            => SmsInvoked(tasks[u])

\* with one slot: the first run sent the email and its mark call failed, it
\* ended normally, and the run after it has sent the email again
C29_Witness ==
    /\ MAX_CONCURRENT_TASKS = 1
    /\ Len(tasks) = 2
    /\ tasks[1].pc = "done" /\ tasks[1].ret = "summary"
    /\ tasks[1].email = "delivered" /\ tasks[1].email_mark = "failed"
    /\ ~store[StoredKey].email_sent
    /\ tasks[2].pc = "email_marking" /\ tasks[2].email = "delivered"

\* C30: the marks are monotonic: a flag that is true stays true in every
\* step, whatever webhook calls, runs and mark calls follow, and no row is
\* removed.
C30_MarksMonotonic ==
    [][/\ DOMAIN store' = DOMAIN store
       /\ \A k \in DOMAIN store :
              /\ store[k].email_sent => store'[k].email_sent
              /\ store[k].sms_sent => store'[k].sms_sent]_vars

\* two racing runs have each written both marks: four updates, both flags set
C30_Witness ==
    /\ clock = 4
    /\ store[StoredKey].email_sent /\ store[StoredKey].sms_sent
    /\ \A t \in TaskIds : Ended(tasks[t])

----------------------------------------------------------------------------
(* The snapshot a run works from *)

SmsPcs == {"sms_skip_marking", "sms_sending", "sms_marking"}

\* the store read is the step out of "reading"; no other step touches the view,
\* and a run enters "reading" only from the semaphore
C31_ReadOnceStep ==
    \A t \in TaskIds :
        /\ tasks[t].pc # "reading" => tasks'[t].view = tasks[t].view
        /\ (tasks'[t].pc = "reading" /\ tasks[t].pc # "reading")
              => tasks[t].pc \in {"created", "woken"}
        /\ tasks[t].pc \in {"created", "waiting", "woken", "reading"}
              => tasks[t].view = AbsentView

\* what the run does on each channel is a function of the flags it read,
\* whatever the store holds by now
C31_DecidedFromSnapshot ==
    \A t \in TaskIds :
        (tasks[t].view.found /\ tasks[t].view.well_formed) =>
            /\ tasks[t].view.email_sent <=> tasks[t].email = "none"
            /\ tasks[t].view.sms_sent => tasks[t].sms = "none"
            /\ (~tasks[t].view.sms_sent /\ (Ended(tasks[t]) \/ tasks[t].pc \in SmsPcs))
                  => tasks[t].sms # "none"

\* C31: a run reads the application's sent-flags once, at its start, and
\* decides both channels from that snapshot: a channel read as owed is
\* attempted (or skip-marked) by the run even if another run has marked it
\* since, and a channel read as sent is not sent again by the run.
C31_DecidesFromOneRead == []C31_DecidedFromSnapshot /\ [][C31_ReadOnceStep]_vars

\* run t marked the email after another run had marked the SMS, and is
\* sending the SMS it read as owed
C31_Witness ==
    \E t \in TaskIds, u \in TaskIds :
        /\ t # u /\ KeyOf(tasks[t]) = StoredKey /\ KeyOf(tasks[u]) = StoredKey
        /\ tasks[t].email_mark = "ok" /\ tasks[u].email_mark # "ok"
        /\ tasks[u].sms_mark = "ok"
        /\ store[StoredKey].sms_sent
        /\ store[StoredKey].sms_sent_at < store[StoredKey].email_sent_at
        /\ ~tasks[t].view.sms_sent
        /\ tasks[t].pc = "sms_sending"

----------------------------------------------------------------------------
(* The order of the two channels inside one run *)

EmailPcs == {"email_sending", "email_marking"}

\* once the SMS branch has started, the email branch is over: its sender has
\* returned or raised, and the mark call that follows a returned send is done
C32_EmailOverBeforeSms ==
    \A t \in TaskIds :
        /\ tasks[t].sms # "none" =>
              /\ tasks[t].pc \notin EmailPcs
              /\ tasks[t].email # "inflight"
              /\ tasks[t].email \in Returned <=> tasks[t].email_mark # "none"
        /\ tasks[t].pc \in SmsPcs => tasks[t].sms # "none"
        /\ ~(tasks[t].email = "inflight" /\ tasks[t].sms = "inflight")
        /\ (Len(tasks) = 1 /\ tasks[t].email_mark = "ok" /\ tasks[t].sms_mark = "ok")
              => store[KeyOf(tasks[t])].email_sent_at < store[KeyOf(tasks[t])].sms_sent_at

\* the SMS branch starts at the step that ends the email branch (or at the
\* read, when the email is not owed), and nothing of the email branch moves
\* after it
C32_OrderStep ==
    \A t \in TaskIds :
        /\ tasks[t].sms # "none" =>
              /\ tasks'[t].email = tasks[t].email
              /\ tasks'[t].email_mark = tasks[t].email_mark
        /\ (tasks[t].sms = "none" /\ tasks'[t].sms # "none") =>
              \/ tasks[t].pc = "email_marking"
              \/ tasks[t].pc = "email_sending" /\ tasks'[t].email = "raised"
              \/ tasks[t].pc = "reading" /\ tasks'[t].view.email_sent

\* C32: within one run the channels go strictly in order: the email send
\* attempt and the email mark write that follows it have both finished before
\* the SMS branch (skip-marking or send) starts, and the two senders of one run
\* are never in flight together.
C32_ChannelsInOrder == []C32_EmailOverBeforeSms /\ [][C32_OrderStep]_vars

C32_Witness ==
    /\ Len(tasks) = 1
    /\ tasks[1].pc = "sms_sending" /\ tasks[1].sms = "inflight"
    /\ tasks[1].email = "delivered" /\ tasks[1].email_mark = "ok"
    /\ store[StoredKey].email_sent /\ ~store[StoredKey].sms_sent

----------------------------------------------------------------------------
(* A failure while the inputs are prepared *)

\* the view is of a row that main.py:93-185 cannot process
RaisesInPreparation(v) == v.found /\ ~v.well_formed

\* the step in which the read returns such a row: the run ends at once by the
\* outer except, has called no sender and no mark, leaves the store as it
\* was, and has given its slot back
C33_RaiseStep ==
    \A t \in TaskIds :
        (tasks[t].pc = "reading" /\ tasks'[t].pc # "reading"
           /\ RaisesInPreparation(tasks'[t].view)) =>
            /\ tasks'[t].pc = "done" /\ tasks'[t].ret = "exception"
            /\ store' = store
            /\ t \notin HoldersAfter
            /\ sem_value' + Cardinality(HoldersAfter) = MAX_CONCURRENT_TASKS
            /\ sem_waiters = << >> => sem_value' = sem_value + 1

C33_NothingDone ==
    \A t \in TaskIds :
        RaisesInPreparation(tasks[t].view) =>
            /\ Ended(tasks[t])
            /\ tasks[t].email = "none" /\ tasks[t].sms = "none"
            /\ tasks[t].email_mark = "none" /\ tasks[t].sms_mark = "none"
            /\ store[KeyOf(tasks[t])].email_sent = tasks[t].view.email_sent
            /\ store[KeyOf(tasks[t])].sms_sent = tasks[t].view.sms_sent
            /\ store[KeyOf(tasks[t])].email_sent_at = 0
            /\ store[KeyOf(tasks[t])].sms_sent_at = 0

\* C33: if an exception is raised after the store read and before the channel
\* stage, the run invokes neither sender and writes no mark, releases its
\* slot, and both channels stay owed for the next event.
C33_PreparationFailureIsClean == []C33_NothingDone /\ [][C33_RaiseStep]_vars

\* two events for the incomplete row: both runs raised, the second read found
\* both channels still owed, and every slot is free again
C33_Witness ==
    /\ Len(tasks) = 2
    /\ \A t \in TaskIds :
          /\ RaisesInPreparation(tasks[t].view)
          /\ ~tasks[t].view.email_sent /\ ~tasks[t].view.sms_sent
          /\ tasks[t].ret = "exception"
    /\ ~store[StoredKey].email_sent /\ ~store[StoredKey].sms_sent
    /\ sem_value = MAX_CONCURRENT_TASKS

----------------------------------------------------------------------------
(* The order of the webhook's checks *)

\* the first of the five checks, in the stated order, that the call fails
FirstFailingCheck(q) ==
    IF ~SecretAccepted(q) THEN "secret"
    ELSE IF ~StructurallyValid(q.payload) THEN "structure"
    ELSE IF q.payload.type # "INSERT" THEN "type"
    ELSE IF q.payload.table # MonitoredTable THEN "table"
    ELSE IF FalsyInt(q.payload.record.cand_id) \/ FalsyStr(q.payload.record.requirement_id)
    THEN "identifiers"
    ELSE "none"

\* the response that check decides, in the handler's step
DecidedBy(check, q) ==
    CASE check = "secret" -> lastResp'.code = 401 /\ NoTaskScheduled
      [] check = "structure" -> lastResp'.code = 400 /\ NoTaskScheduled
      [] check = "type" ->
            /\ lastResp'.code = 200 /\ lastResp'.status = "ignored"
            /\ lastResp'.reason = <<"Event type '", q.payload.type, "' not processed">>
            /\ NoTaskScheduled
      [] check = "table" ->
            /\ lastResp'.code = 200 /\ lastResp'.status = "ignored"
            /\ lastResp'.reason = <<"Table '", q.payload.table, "' not monitored">>
            /\ NoTaskScheduled
      [] check = "identifiers" -> lastResp'.code = 400 /\ NoTaskScheduled
      [] check = "none" -> lastResp'.code = 202 /\ Len(tasks') = Len(tasks) + 1

\* C34: the handler's checks run in the order secret, structural validation,
\* event type, table, non-empty identifiers, and the first one a call fails
\* decides its response: a record without an identifier is answered 400 also
\* for a type or table that would be ignored, a non-INSERT event on another
\* table is ignored with the event-type reason, and an INSERT on the
\* monitored table with a zero or empty identifier is answered 400 and
\* schedules no run.
C34_FirstFailingCheckDecides ==
    [][\A q \in Requests :
          Handled(q) => DecidedBy(FirstFailingCheck(q), q)]_vars


====
